---- MODULE Spec2Model ----
(***************************************************************************)
(* A model of martin-config: the run of config.create_config_dict over a   *)
(* PostGIS catalogue, with db.get_table_cfg and the publish / privilege    *)
(* resolvers of db.py.  Every query of the run is one step; what the       *)
(* database answers is chosen from bounded sets.  Spec is that run,        *)
(* followed by the update of the general settings in __main__.  DbSpec is  *)
(* a client that calls list_tables and the comment functions of db.py one  *)
(* after the other; DsnSpec converts a connection descriptor with          *)
(* utils.cd2s and back with utils.cs2d; ConnSpec calls db.database_exists  *)
(* and db.list_databases; DumpSpec calls utils.dump several times in one   *)
(* process; GeomSpec runs cfg.get_table_cfg2 and db.get_table_cfg on the   *)
(* geometry columns of one table.                                          *)
(*                                                                         *)
(* Text is modelled as a sequence of one-character strings, a comment as   *)
(* the sequence of its key/value pairs, a JSON object as the sequence of   *)
(* its members, a table identifier schema.name as the three tokens         *)
(* <<schema, ".", name>>.                                                  *)
(***************************************************************************)
EXTENDS Integers, Sequences, FiniteSets, TLC

(***************************************************************************)
(* Bounds.                                                                 *)
(***************************************************************************)
\* most geometry rows get_table_columns returns for one table
MaxRows == 3
\* most schema names passed in the schemas argument
MaxReq == 2
\* most key/value pairs in one comment
MaxPairs == 1
\* most calls of db functions made one after the other
MaxCalls == 2
\* most calls of database_exists and list_databases made one after the other
MaxConnCalls == 4
\* most calls of utils.dump in one process
MaxDumps == 2
\* most geometry columns of the table get_table_cfg2 is compared on
MaxGeoms == 3

(***************************************************************************)
(* Python values and the three tests the code applies to them.             *)
(***************************************************************************)
PyTrue == "True"
PyFalse == "False"
PyNone == "None"
PyZero == "0"
PyOne == "1"
\* an exception leaving a call
Raise == "raise"

\* x == False
PyEqFalse(x) == x \in {PyFalse, PyZero}
\* x is False
PyIsFalse(x) == x = PyFalse
\* not x
PyNot(x) == x \in {PyFalse, PyNone, PyZero}

(***************************************************************************)
(* str.lower, str.capitalize and eval on the publish literals.             *)
(***************************************************************************)
Uppers == <<"T", "R", "U", "E", "F", "A", "L", "S", "N", "O", "Y">>
Lowers == <<"t", "r", "u", "e", "f", "a", "l", "s", "n", "o", "y">>

LowerChar(c) ==
    IF \E i \in 1..Len(Uppers) : Uppers[i] = c
    THEN Lowers[CHOOSE i \in 1..Len(Uppers) : Uppers[i] = c]
    ELSE c

UpperChar(c) ==
    IF \E i \in 1..Len(Lowers) : Lowers[i] = c
    THEN Uppers[CHOOSE i \in 1..Len(Lowers) : Lowers[i] = c]
    ELSE c

lower(s) == [i \in 1..Len(s) |-> LowerChar(s[i])]

capitalize(s) ==
    [i \in 1..Len(s) |-> IF i = 1 THEN UpperChar(s[i]) ELSE LowerChar(s[i])]

\* eval of a Python expression: the names and literals it knows evaluate,
\* every other text of the bounded alphabet is an unknown name
eval(s) ==
    CASE s = <<"T", "r", "u", "e">> -> PyTrue
      [] s = <<"F", "a", "l", "s", "e">> -> PyFalse
      [] s = <<"N", "o", "n", "e">> -> PyNone
      [] s = <<"0">> -> PyZero
      [] s = <<"1">> -> PyOne
      [] OTHER -> Raise

(***************************************************************************)
(* Comments: urlparse.parse_qsl followed by dict().                        *)
(***************************************************************************)
PublishLiterals ==
    { <<"t", "r", "u", "e">>, <<"T", "R", "U", "E">>,
      <<"f", "a", "l", "s", "e">>, <<"F", "a", "l", "s", "e">>,
      <<"n", "o", "n", "e">>, <<"0">>, <<"1">>, <<"y", "e", "s">> }

\* the key/value pairs of a comment: publish with a literal or blank
\* ("publish="), or a key the resolvers do not look at
CommentPairs ==
    ({"publish"} \X (PublishLiterals \cup {<<>>})) \cup {<<"note", <<"1">>>>}

SeqsUpTo(S, n) == UNION { [1..k -> S] : k \in 0..n }

\* the comment texts of the catalogue; <<>> is a missing (NULL) comment
Comments == SeqsUpTo(CommentPairs, MaxPairs)

\* parse_qsl without keep_blank_values drops the pairs with a blank value
parse_qsl(qs) == SelectSeq(qs, LAMBDA kv : kv[2] # <<>>)

\* dict(pairs): a later pair replaces an earlier one with the same key
dict(pairs) ==
    [k \in {pairs[i][1] : i \in 1..Len(pairs)} |->
        pairs[CHOOSE i \in 1..Len(pairs) :
                /\ pairs[i][1] = k
                /\ \A j \in (i + 1)..Len(pairs) : pairs[j][1] # k][2]]

get_table_comment(result) == dict(parse_qsl(result))

get_column_comment(result) == dict(parse_qsl(result))

\* variant: a missing publish key is left undecided, as for a column
table_is_publishable_unset(result) ==
    LET table_comment_dict == get_table_comment(result) IN
    IF "publish" \notin DOMAIN table_comment_dict
    THEN PyNone
    ELSE eval(capitalize(lower(table_comment_dict["publish"])))

table_is_publishable(result) ==
    LET table_comment_dict == get_table_comment(result) IN
    IF "publish" \notin DOMAIN table_comment_dict
    THEN PyFalse
    ELSE eval(capitalize(lower(table_comment_dict["publish"])))

column_is_publishable(result) ==
    LET col_comment_dict == get_column_comment(result) IN
    IF "publish" \notin DOMAIN col_comment_dict
    THEN PyNone
    ELSE eval(capitalize(lower(col_comment_dict["publish"])))

(***************************************************************************)
(* The catalogue the queries answer from.                                  *)
(***************************************************************************)
\* a query that raises (timeout, lost connection, SQL error)
Error == "Error"

UserSchemas == {"public", "zambia"}
ReservedSchemas == {"information_schema", "pg_catalog"}

\* f'{e["schemaname"]}.{e["tablename"]}'
TableId(schemaname, tablename) == <<schemaname, ".", tablename>>

DbTables ==
    { TableId("zambia", "poverty"), TableId("public", "roads") }

\* str.split('.') on the tokens of an identifier
RECURSIVE split(_)
split(t) ==
    IF t = <<>> THEN << <<>> >>
    ELSE LET rest == split(Tail(t)) IN
         IF Head(t) = "."
         THEN << <<>> >> \o rest
         ELSE << <<Head(t)>> \o Head(rest) >> \o Tail(rest)

\* the members of the properties JSON object of a table
PropertiesJson == << <<"pub_ctr", "float8">>, <<"internal_id", "int4">> >>

\* the geometry columns a table can have
GeomRows ==
    { [geom_column |-> "geom", srid |-> 3857, type |-> "MULTIPOLYGON",
       properties |-> PropertiesJson],
      [geom_column |-> "geom_ll", srid |-> 4326, type |-> "POINT",
       properties |-> PropertiesJson],
      [geom_column |-> "geom_fr", srid |-> 2154, type |-> "POLYGON",
       properties |-> PropertiesJson],
      [geom_column |-> "geom_wm", srid |-> 3857, type |-> "POINT",
       properties |-> PropertiesJson] }

\* get_table_columns answers one row per distinct geometry column
ColumnsResults ==
    { c \in SeqsUpTo(GeomRows, MaxRows) :
        \A i, j \in 1..Len(c) : i # j => c[i].geom_column # c[j].geom_column }

\* what get_bbox's query answers: it must be exactly one row
BboxRow == [xmin |-> 21, ymin |-> -18, xmax |-> 34, ymax |-> -8]
BboxResults == { <<>>, <<BboxRow>>, <<BboxRow, BboxRow>> }

PkeyResults ==
    { <<>>,
      << [column_name |-> "code", data_type |-> "varchar"],
         [column_name |-> "id", data_type |-> "int4"] >> }

\* fetchval of a has_*_privilege query: a boolean, or None for NULL / no row
PrivResults == {PyTrue, PyFalse, PyNone}

FuncNames == {"tiles"}

\* list_function_sources answers the candidate functions of the schema asked
FuncResults(s) ==
    { <<>> } \cup
    { << [function_schema |-> s, function_name |-> f] >> : f \in FuncNames }

\* json.loads of an object: a later member replaces an earlier one
json_loads(members) == dict(members)

\* the keys of a dict in insertion order
RECURSIVE Keys(_)
Keys(members) ==
    IF members = <<>> THEN <<>>
    ELSE LET k == members[1][1]
             rest == Keys(SelectSeq(Tail(members), LAMBDA m : m[1] # k))
         IN  <<k>> \o rest

(***************************************************************************)
(* db.get_table_cfg, lines 681-688: the row the loop ends on.              *)
(***************************************************************************)
Has3857(columns) == \E i \in 1..Len(columns) : columns[i].srid = 3857

\* variant: the loop has no break
PickRowNoBreak(columns) == columns[Len(columns)]

\* variant: 3857 first, then 4326, then the first row
PickRowPrefer4326(columns) ==
    LET first(s) == columns[CHOOSE i \in 1..Len(columns) :
                              /\ columns[i].srid = s
                              /\ \A j \in 1..(i - 1) : columns[j].srid # s]
    IN  IF Has3857(columns) THEN first(3857)
        ELSE IF \E i \in 1..Len(columns) : columns[i].srid = 4326
        THEN first(4326)
        ELSE columns[1]

\* variant: the row is kept only inside the test for 3857
PickRowOnly3857(columns) ==
    IF Has3857(columns)
    THEN columns[CHOOSE i \in 1..Len(columns) :
                   /\ columns[i].srid = 3857
                   /\ \A j \in 1..(i - 1) : columns[j].srid # 3857]
    ELSE [geom_column |-> "-", srid |-> 0, type |-> "-", properties |-> <<>>]

RECURSIVE PickFrom(_, _)
PickFrom(columns, i) ==
    IF columns[i].srid = 3857 \/ i = Len(columns)
    THEN columns[i]
    ELSE PickFrom(columns, i + 1)

PickRow(columns) == PickFrom(columns, 1)

(***************************************************************************)
(* The run of config.create_config_dict.                                   *)
(***************************************************************************)
VARIABLES
    db_schemas,             \* the user schemas the database has
    for_user,               \* argument: TRUE when a principal is given
    skip_function_sources,  \* argument
    schemas,                \* the schemas "for schema in schemas" has left
    available_schemas,
    pc,                     \* the line the run is at
    handles,                \* the pool and the connections that are open
    exc,                    \* the exception create_pool raised
    raised_at,              \* the call whose exception ended the run
    schema,                 \* loop variable of line 36
    tables,                 \* the tables "for table in ..." has left
    table,                  \* loop variable of line 48
    will_publish,
    comment,                \* the table comment read for table
    columns,                \* get_table_cfg: the rows of get_table_columns
    r,                      \* get_table_cfg: the row the loop ended on
    bbox_req,               \* get_table_cfg: what get_bbox was asked for
    bb,
    prim_key_rec,           \* get_table_cfg: the primary key lookup
    id_column,
    todo,                   \* get_table_cfg: the property keys still to check
    decided,                \* get_table_cfg: per column its annotation as
                            \* read and what its check returned
    props,
    funcs,                  \* the functions "for func_rec in funcs" has left
    schemas_cfg,
    funcs_cfg,
    result,                 \* what create_config_dict returned
    tlog,                   \* per table: how its resolution ended
    no_publish_key,         \* the tables whose comment had no publish key
    slog,                   \* per schema: how its iteration ended
    issued,                 \* the db functions the run has called so far
    flog,                   \* per function: listed, then whether its
                            \* check granted it
    general_config,         \* __main__: the document that is dumped
    \* the database as the comment functions of db.py see it, and their calls
    store,                  \* per table and column: its comment text
    op,                     \* the last call of a db function
    queries,                \* the SQL files the last call has run
    ret,                    \* what the last call returned
    ncalls,                 \* the calls made so far
    \* the conversions of utils.py
    conn,                   \* a connection descriptor
    dsn,                    \* utils.cd2s(**conn)
    back,                   \* utils.cs2d(dsn)
    content,                \* utils.dump: the list its default argument holds
    input_dict,             \* utils.dump: the mapping of the last call
    yaml_config,            \* utils.dump: what the last call returned
    reply,                  \* what database_exists or list_databases returned
    open_conns,             \* the connections asyncpg.connect opened that
                            \* are not closed
    geoms,                  \* the geometry columns of one table
    by_cfg2,                \* the column cfg.get_table_cfg2 selects
    by_db                   \* the column db.get_table_cfg selects

args == <<db_schemas, for_user, skip_function_sources>>
more == <<content, input_dict, yaml_config, reply, open_conns, geoms, by_cfg2,
         by_db>>
lib == <<store, op, queries, ret, ncalls, conn, dsn, back, more>>
run == <<db_schemas, for_user, skip_function_sources, schemas,
         available_schemas, pc, handles, exc, raised_at, schema, tables,
         table, will_publish, comment, columns, r, bbox_req, bb,
         prim_key_rec, id_column, todo, decided, props, funcs, schemas_cfg,
         funcs_cfg, result, tlog, no_publish_key, slog, issued, flog,
         general_config>>
call == <<columns, r, bbox_req, bb, prim_key_rec, id_column, todo, decided,
          props>>
vars == <<db_schemas, for_user, skip_function_sources, schemas,
          available_schemas, pc, handles, exc, raised_at, schema, tables,
          table, will_publish, comment, columns, r, bbox_req, bb,
          prim_key_rec, id_column, todo, decided, props, funcs, schemas_cfg,
          funcs_cfg, result, tlog, no_publish_key, slog, issued, flog,
          general_config, store, op, queries, ret, ncalls, conn, dsn, back,
          content, input_dict, yaml_config, reply, open_conns, geoms,
          by_cfg2, by_db>>

NoValue == "-"
NoRow == [geom_column |-> NoValue, srid |-> 0, type |-> NoValue,
          properties |-> <<>>]

\* what create_config_dict returns: None, or a dict
NoResult == [none |-> TRUE, dict |-> <<>>]

\* the schemas argument: None, or names without repetition (main passes a set)
Requests ==
    { q \in SeqsUpTo(UserSchemas, MaxReq) :
        \A i, j \in 1..Len(q) : i # j => q[i] # q[j] }

\* tuple(set(...)) iterates in an order the caller does not control
Orderings(S) ==
    { q \in [1..Cardinality(S) -> S] :
        \A x \in S : \E i \in DOMAIN q : q[i] = x }

\* dict.update with one item
Update(d, k, v) == [x \in DOMAIN d \cup {k} |-> IF x = k THEN v ELSE d[x]]

Log(log, k, v) == [log EXCEPT ![k] = v]

\* what a comment says about publish, whatever the resolver makes of it
PublishAnnotation(text) ==
    LET d == dict(parse_qsl(text)) IN
    IF "publish" \notin DOMAIN d THEN "none"
    ELSE IF lower(d["publish"]) = <<"t", "r", "u", "e">> THEN "true"
    ELSE IF lower(d["publish"]) = <<"f", "a", "l", "s", "e">> THEN "false"
    ELSE "other"

\* the resolution of table t ended in e
Ended(t, e) == [tlog EXCEPT ![t] = e]

\* the tables and columns that carry a comment
Objects ==
    DbTables \cup
    { <<TableId("zambia", "poverty"), c>> : c \in {"pub_ctr", "internal_id"} }

\* a call of a db function: its name, the table or column and the value
NoCall == [name |-> NoValue, object |-> <<>>, value |-> <<>>]
\* what a call returned: it raised, or a set of tables, or a dict
NoReturn == [raised |-> FALSE, tables |-> {}, dict |-> <<>>]

\* the ids schema.function of the functions a database can have
FuncIds ==
    { <<s, ".", f>> : s \in UserSchemas \cup ReservedSchemas, f \in FuncNames }

\* nothing is open: no pool, no connection, and none was acquired
NoHandles == [pool |-> FALSE, acquired |-> 0, conns |-> 0]

\* no exception; an exception has a kind and the database names it carries
NoExc == [kind |-> NoValue, databases |-> {}]

\* get_bbox was not called
NoBboxReq == [table |-> <<>>, geom_column |-> NoValue, srid |-> 0]

\* get_table_primary_key was not called
NoLookup == [ran |-> FALSE, failed |-> FALSE, rows |-> <<>>]

\* config.create_general_config: the general settings with their defaults
create_general_config ==
    [listen_addresses |-> "'0.0.0.0:3000'",
     connection_string |-> "'$DATABASE_URL'",
     pool_size |-> "20", keep_alive |-> "75", woker_processes |-> "8",
     watch |-> PyFalse, danger_accept_invalid_certs |-> PyTrue]

\* the locals of create_config_dict and the histories before the run
RunInit ==
    /\ available_schemas = {}
    /\ pc = "create_pool"
    /\ handles = NoHandles
    /\ exc = NoExc
    /\ raised_at = NoValue
    /\ schema = NoValue
    /\ tables = {}
    /\ table = <<>>
    /\ will_publish = NoValue
    /\ comment = <<>>
    /\ columns = <<>>
    /\ r = NoRow
    /\ bbox_req = NoBboxReq
    /\ bb = <<>>
    /\ prim_key_rec = NoLookup
    /\ id_column = NoValue
    /\ todo = <<>>
    /\ decided = <<>>
    /\ props = <<>>
    /\ funcs = <<>>
    /\ schemas_cfg = <<>>
    /\ funcs_cfg = <<>>
    /\ result = NoResult
    /\ tlog = [t \in DbTables |-> "unseen"]
    /\ no_publish_key = {}
    /\ slog = [s \in UserSchemas |-> "unseen"]
    /\ issued = {}
    /\ flog = [f \in FuncIds |-> "unseen"]
    /\ general_config = create_general_config

\* no db function was called
DbIdle ==
    /\ store = [o \in Objects |-> <<>>]
    /\ op = NoCall
    /\ queries = <<>>
    /\ ret = NoReturn
    /\ ncalls = 0

\* no descriptor: the value of conn and back before they are set
NoDescriptor ==
    [user |-> <<>>, password |-> <<>>, host |-> <<>>, port |-> 0,
     database |-> <<>>, options |-> <<>>]

\* no conversion was made
DsnIdle ==
    /\ conn = NoDescriptor
    /\ dsn = <<>>
    /\ back = NoDescriptor

\* what dump returns: None, or text
NoText == [none |-> TRUE, text |-> <<>>]

\* what database_exists and list_databases return: it raised, or a boolean,
\* or a tuple of names
NoReply == [raised |-> FALSE, exists |-> PyNone, databases |-> <<>>]

\* dump, database_exists, list_databases and get_table_cfg2 were not called
MoreIdle ==
    /\ content = <<>>
    /\ input_dict = <<>>
    /\ yaml_config = NoText
    /\ reply = NoReply
    /\ open_conns = 0
    /\ geoms = <<>>
    /\ by_cfg2 = NoValue
    /\ by_db = NoValue

Init ==
    /\ db_schemas \in SUBSET UserSchemas
    /\ for_user \in BOOLEAN
    /\ skip_function_sources \in BOOLEAN
    /\ schemas \in Requests
    /\ RunInit
    /\ DbIdle
    /\ DsnIdle
    /\ MoreIdle

\* an exception nobody catches leaves create_config_dict
Abort(where) ==
    /\ pc' = "raised"
    /\ raised_at' = where

\* the databases of the server
Databases == {"postgres", "gis"}

\* asyncpg.InvalidCatalogNameError: its message names the database asked
\* for and no other
InvalidCatalogNameError ==
    [kind |-> "InvalidCatalogNameError", databases |-> {}]

\* config.py 28-31: the two "async with" blocks release the connection and
\* close the pool when the run leaves them, by an exception or at line 89
async_with(p, h) ==
    IF p \in {"raised", "return"}
    THEN [h EXCEPT !.pool = FALSE, !.conns = 0]
    ELSE h

\* config.py 28-31: create the pool and acquire the connection
CreatePool ==
    /\ pc = "create_pool"
    /\ \E answer \in {"ok", Error, "InvalidCatalogNameError"} :
        IF answer = "InvalidCatalogNameError"
        THEN \* the database of the dsn does not exist
             /\ Abort("create_pool")
             /\ exc' = InvalidCatalogNameError
             /\ UNCHANGED handles
        ELSE IF answer = Error
        THEN \* the server is not reached, or acquire times out
             /\ Abort("create_pool")
             /\ exc' = [kind |-> Error, databases |-> {}]
             /\ UNCHANGED handles
        ELSE /\ pc' = "list_schemas"
             /\ handles' = [pool |-> TRUE, acquired |-> handles.acquired + 1,
                            conns |-> handles.conns + 1]
             /\ UNCHANGED <<raised_at, exc>>
    /\ UNCHANGED <<lib, args, schemas, available_schemas, schema, tables, table,
                   will_publish, comment, call, funcs, schemas_cfg, funcs_cfg,
                   result, tlog, no_publish_key, slog, issued, flog,
                   general_config>>

\* variant: every row of the query is returned
list_schemas_unfiltered(res) == res

\* db.list_schemas, line 587
list_schemas(res) == res \ {"information_schema", "pg_catalog"}

\* config.py 32-35
ListSchemas ==
    /\ pc = "list_schemas"
    /\ \E answer \in {"ok", Error} :
        IF answer = Error
        THEN /\ Abort("list_schemas")
             /\ UNCHANGED <<available_schemas, schemas>>
        ELSE /\ available_schemas' =
                  list_schemas(db_schemas \cup ReservedSchemas)
             /\ IF schemas = <<>>
                THEN schemas' \in Orderings(available_schemas')
                ELSE UNCHANGED schemas
             /\ pc' = "for_schema"
             /\ UNCHANGED raised_at
    /\ handles' = async_with(pc', handles)
    /\ UNCHANGED <<lib, exc, args, schema, tables, table, will_publish,
                   comment, call,
                   funcs, schemas_cfg, funcs_cfg, result, tlog,
                   no_publish_key, slog, issued, flog, general_config>>

\* variant: the denial is logged and the loop body goes on
SchemaDeniedGoesOn ==
    /\ slog' = Log(slog, schema', "denied")
    /\ pc' = "list_tables"
    /\ UNCHANGED raised_at

\* config.py 39-41: without USAGE the loop continues with the next schema
SchemaDenied ==
    /\ slog' = Log(slog, schema', "denied")
    /\ UNCHANGED <<pc, raised_at>>

\* config.py 36-47: the next schema, its USAGE check and its existence check
ForSchema ==
    /\ pc = "for_schema"
    /\ IF schemas = <<>>
       THEN /\ pc' = "return"
            /\ UNCHANGED <<schemas, schema, raised_at, slog, issued>>
       ELSE /\ schema' = Head(schemas)
            /\ schemas' = Tail(schemas)
            /\ issued' = IF for_user
                         THEN issued \cup {"schema_is_accessible"}
                         ELSE issued
            /\ \E answer \in (IF for_user THEN PrivResults \cup {Error}
                                        ELSE {NoValue}) :
                IF answer = Error
                THEN /\ Abort("schema_is_accessible")
                     /\ UNCHANGED slog
                ELSE IF for_user /\ PyNot(answer)
                THEN SchemaDenied
                ELSE IF schema' \notin available_schemas
                THEN /\ slog' = Log(slog, schema', "missing")
                     /\ UNCHANGED <<pc, raised_at>>
                ELSE /\ pc' = "list_tables"
                     /\ UNCHANGED <<raised_at, slog>>
    /\ handles' = async_with(pc', handles)
    /\ UNCHANGED <<lib, exc, args, available_schemas, tables, table,
                   will_publish,
                   comment, call, funcs, schemas_cfg, funcs_cfg, result, tlog,
                   no_publish_key, flog, general_config>>

\* variant: only the blank name is refused
list_tables_asserts_blank(s, listed) == s # ""

\* db.list_tables 597-600: the two asserts on a schema that is given
list_tables_asserts(s, listed) == s # "" /\ s \in listed

\* the tables of a schema that list_schema_tables.sql can answer
ListTablesResults(s) == SUBSET { t \in DbTables : t[1] = s }

\* config.py 48 and db.list_tables 597-615
ListTables ==
    /\ pc = "list_tables"
    /\ \E failed \in BOOLEAN :
        IF \/ failed
           \/ ~list_tables_asserts(
                  schema, list_schemas(db_schemas \cup ReservedSchemas))
        THEN /\ Abort("list_tables")
             /\ UNCHANGED tables
        ELSE /\ tables' \in ListTablesResults(schema)
             /\ pc' = "for_table"
             /\ UNCHANGED raised_at
    /\ slog' = Log(slog, schema, "listed")
    /\ handles' = async_with(pc', handles)
    /\ UNCHANGED <<lib, exc, args, schemas, available_schemas, schema,
                   table,
                   will_publish, comment, call, funcs, schemas_cfg, funcs_cfg,
                   result, tlog, no_publish_key, issued, flog, general_config>>

\* config.py 49-53: the check that decides a table
TableCheck(user) ==
    IF user THEN "table_is_accessible" ELSE "table_is_publishable"

\* variant: the loop ends whatever the listing still holds
TablesDoneAlways(ts) == TRUE

\* config.py 48: the table loop ends when every listed table was taken
TablesDone(ts) == ts = {}

\* config.py 48-61: the next table and its publish decision
ForTable ==
    /\ pc = "for_table"
    /\ IF TablesDone(tables)
       THEN /\ pc' = "list_function_sources"
            /\ will_publish' = NoValue
            /\ comment' = <<>>
            /\ UNCHANGED <<tables, table, tlog, no_publish_key, issued>>
       ELSE \E t \in tables :
            /\ table' = t
            /\ tables' = tables \ {t}
            /\ issued' = issued \cup {TableCheck(for_user)}
            /\ \E failed \in BOOLEAN :
                IF failed
                THEN \* lines 54-57: the except clause
                     /\ will_publish' = Raise
                     /\ comment' = <<>>
                     /\ tlog' = Ended(t, "check_failed")
                     /\ UNCHANGED <<pc, no_publish_key>>
                ELSE /\ IF TableCheck(for_user) = "table_is_accessible"
                        THEN /\ will_publish' \in PrivResults
                             /\ comment' = <<>>
                             /\ UNCHANGED no_publish_key
                        ELSE /\ comment' \in Comments
                             /\ will_publish' = table_is_publishable(comment')
                             /\ no_publish_key' =
                                  IF PublishAnnotation(comment') = "none"
                                  THEN no_publish_key \cup {t}
                                  ELSE no_publish_key
                     /\ IF will_publish' = Raise
                        THEN /\ tlog' = Ended(t, "check_failed")
                             /\ UNCHANGED pc
                        ELSE IF PyEqFalse(will_publish')
                        THEN /\ tlog' = Ended(t, "not_publishable")
                             /\ UNCHANGED pc
                        ELSE /\ tlog' = Ended(t, "building")
                             /\ pc' = "get_table_columns"
    \* the locals of the last get_table_cfg call are gone
    /\ columns' = <<>> /\ r' = NoRow /\ bbox_req' = NoBboxReq /\ bb' = <<>>
    /\ prim_key_rec' = NoLookup
    /\ id_column' = NoValue /\ todo' = <<>> /\ decided' = <<>>
    /\ props' = <<>>
    /\ UNCHANGED <<lib, handles, exc, args, schemas, available_schemas,
                   raised_at, schema, funcs,
                   schemas_cfg, funcs_cfg, result, slog, flog, general_config>>

\* f'{table}:'
TableKey(t) == t \o <<":">>

\* variant: a table without geometry rows gets an empty record
NoColumnsMerged ==
    /\ pc' = "for_table"
    /\ tlog' = Ended(table, "no_columns")
    /\ schemas_cfg' = Update(schemas_cfg, TableKey(table), <<>>)

\* db.get_table_cfg 677-680 and config.py 63: without rows get_table_cfg
\* returns None, nothing is merged and the caller goes on with the next table
NoColumns ==
    /\ pc' = "for_table"
    /\ tlog' = Ended(table, "no_columns")
    /\ UNCHANGED schemas_cfg

\* db.get_table_cfg 676-688
GetTableColumns ==
    /\ pc = "get_table_columns"
    \* the publish decision and the comment are not used past line 58
    /\ comment' = <<>>
    /\ will_publish' = NoValue
    /\ \E failed \in BOOLEAN :
        IF failed \/ Len(split(table)) # 2
        THEN /\ Abort("get_table_columns")
             /\ tlog' = Ended(table, "raised")
             /\ UNCHANGED <<columns, r, schemas_cfg>>
        ELSE /\ columns' \in ColumnsResults
             /\ UNCHANGED raised_at
             /\ IF columns' = <<>>
                THEN /\ NoColumns
                     /\ UNCHANGED r
                ELSE /\ r' = PickRow(columns')
                     /\ pc' = "get_bbox"
                     /\ UNCHANGED <<tlog, schemas_cfg>>
    /\ handles' = async_with(pc', handles)
    /\ UNCHANGED <<lib, exc, args, schemas, available_schemas, schema, tables,
                   table,
                   bbox_req, bb, prim_key_rec, id_column, todo, decided, props,
                   funcs, funcs_cfg, result, no_publish_key, slog, issued,
                   flog, general_config>>

\* db.get_bbox 650-655: the query raises, or the assert on one row fails
get_bbox_raises(failed, res) == failed \/ Len(res) # 1

\* db.get_bbox 656-657
get_bbox(res) == <<res[1].xmin, res[1].ymin, res[1].xmax, res[1].ymax>>

\* variant: the except clause logs and does not return
BboxFailedGoesOn ==
    /\ pc' = "get_table_primary_key"
    /\ tlog' = Ended(table, "bbox_failed")

\* db.get_table_cfg 699-702 and config.py 63: the except clause returns
\* None, and the caller goes on with the next table
BboxFailed ==
    /\ pc' = "for_table"
    /\ tlog' = Ended(table, "bbox_failed")

\* variant: the box is asked for in web mercator, whatever the row
BboxRequest3857(t, row) ==
    [table |-> t, geom_column |-> row.geom_column, srid |-> 3857]

\* db.get_table_cfg 692-698: the arguments of get_bbox
BboxRequest(t, row) ==
    [table |-> t, geom_column |-> row.geom_column, srid |-> row.srid]

\* db.get_table_cfg 691-702
GetBbox ==
    /\ pc = "get_bbox"
    /\ bbox_req' = BboxRequest(table, r)
    /\ \E failed \in BOOLEAN :
       \E res \in (IF failed THEN {<<>>} ELSE BboxResults) :
        IF get_bbox_raises(failed, res)
        THEN /\ BboxFailed
             /\ UNCHANGED bb
        ELSE /\ bb' = get_bbox(res)
             /\ pc' = "get_table_primary_key"
             /\ UNCHANGED tlog
    /\ columns' = <<>>
    /\ UNCHANGED <<lib, handles, exc, args, schemas, available_schemas,
                   raised_at, schema, tables,
                   table, will_publish, comment, r, prim_key_rec, id_column,
                   todo, decided, props, funcs, schemas_cfg, funcs_cfg, result,
                   no_publish_key, slog, issued, flog, general_config>>

\* variant: the first row with an integer type names the id column
IdColumnInt(rows) ==
    IF \E i \in 1..Len(rows) : rows[i].data_type = "int4"
    THEN rows[CHOOSE i \in 1..Len(rows) : rows[i].data_type = "int4"]
             .column_name
    ELSE "~"

\* db.get_table_cfg 713-721: the type of the first row is only logged
IdColumn(rows) ==
    IF rows # <<>> THEN rows[1].column_name ELSE "~"

\* db.get_table_cfg 704-728
GetTablePrimaryKey ==
    /\ pc = "get_table_primary_key"
    /\ \E failed \in BOOLEAN :
       \E res \in (IF failed THEN {<<>>} ELSE PkeyResults) :
        \* lines 706-708: after an exception the rows are []
        /\ prim_key_rec' = [ran |-> TRUE, failed |-> failed, rows |-> res]
        /\ id_column' = IdColumn(res)
    /\ todo' = Keys(r.properties)
    /\ props' = <<>>
    /\ decided' = <<>>
    /\ pc' = "for_property"
    /\ UNCHANGED <<lib, handles, exc, args, schemas, available_schemas,
                   raised_at, schema, tables,
                   table, will_publish, comment, columns, r, bbox_req, bb,
                   funcs, schemas_cfg, funcs_cfg, result, tlog,
                   no_publish_key, slog, issued, flog, general_config>>

\* db.get_table_cfg 689, 710-726, 743: the record of a table
TblDict(t, box, row, pkey_name, properties) ==
    [id |-> t, schema |-> split(t)[1], table |-> split(t)[2],
     bounds |-> box, srid |-> row.srid, geometry_column |-> row.geom_column,
     id_column |-> pkey_name, extent |-> 4096, buffer |-> 64,
     geometry_type |-> row.type, clip_geometry |-> TRUE,
     properties |-> properties]

\* variant: "if not col_is_publishable: continue"
KeepTruthy(d) == ~PyNot(d)

\* db.get_table_cfg 737-741: a column is left out when its check is False
Keep(d) == ~PyIsFalse(d)

\* variant: the column comment is read whoever asks
ColumnCheckByComment(user) == "column_is_publishable"

\* db.get_table_cfg 733-736: the check that decides a column
ColumnCheck(user) ==
    IF ~user THEN "column_is_publishable" ELSE "column_is_accessible"

\* db.get_table_cfg 731-745 and config.py 63-64: one column check per step,
\* then the record is returned and merged
ForProperty ==
    /\ pc = "for_property"
    /\ prim_key_rec' = NoLookup
    /\ IF todo = <<>>
       THEN /\ schemas_cfg' = Update(schemas_cfg, TableKey(table),
                                     TblDict(table, bb, r, id_column, props))
            /\ tlog' = Ended(table, "merged")
            /\ pc' = "for_table"
            /\ UNCHANGED <<raised_at, todo, decided, props, issued>>
       ELSE LET k == Head(todo)
                v == json_loads(r.properties)[k]
                check == ColumnCheck(for_user)
                by_grant == check = "column_is_accessible"
            IN  /\ issued' = issued \cup {check}
                /\ \E failed \in BOOLEAN :
                   \E answer \in (IF failed THEN {<<>>}
                                  ELSE IF by_grant THEN PrivResults
                                  ELSE Comments) :
                    LET d == IF failed THEN Raise
                             ELSE IF by_grant THEN answer
                             ELSE column_is_publishable(answer)
                        a == IF failed \/ by_grant THEN "unread"
                             ELSE PublishAnnotation(answer)
                    IN
                    IF d = Raise
                    THEN /\ Abort(check)
                         /\ tlog' = Ended(table, "raised")
                         /\ UNCHANGED <<todo, decided, props, schemas_cfg>>
                    ELSE /\ decided' = Update(decided, k,
                                         [annotation |-> a, value |-> d])
                         /\ props' = IF Keep(d) THEN Update(props, k, v)
                                                ELSE props
                         /\ todo' = Tail(todo)
                         /\ UNCHANGED <<pc, raised_at, tlog, schemas_cfg>>
    /\ handles' = async_with(pc', handles)
    /\ UNCHANGED <<lib, exc, args, schemas, available_schemas, schema, tables,
                   table,
                   will_publish, comment, columns, r, bbox_req, bb, id_column,
                   funcs, funcs_cfg, result, no_publish_key, slog, flog,
                   general_config>>

\* variant: the functions are listed whatever the argument says
ListsFunctionsAlways(skip) == TRUE

\* config.py 66: "if skip_function_sources is False"
ListsFunctions(skip) == skip = FALSE

\* config.py 66-69
ListFunctionSources ==
    /\ pc = "list_function_sources"
    /\ IF ~ListsFunctions(skip_function_sources)
       THEN /\ pc' = "for_schema"
            /\ UNCHANGED <<funcs, raised_at, issued, flog>>
       ELSE /\ issued' = issued \cup {"list_function_sources"}
            /\ \E failed \in BOOLEAN :
                IF failed
                THEN /\ Abort("list_function_sources")
                     /\ UNCHANGED <<funcs, flog>>
                ELSE /\ funcs' \in FuncResults(schema)
                     /\ flog' = [f \in FuncIds |->
                                   IF \E i \in 1..Len(funcs') :
                                        f = <<funcs'[i].function_schema, ".",
                                              funcs'[i].function_name>>
                                   THEN "listed" ELSE flog[f]]
                     /\ pc' = "for_func"
                     /\ UNCHANGED raised_at
    /\ handles' = async_with(pc', handles)
    /\ UNCHANGED <<lib, exc, args, schemas, available_schemas, schema, tables,
                   table,
                   will_publish, comment, call, schemas_cfg, funcs_cfg, result,
                   tlog, no_publish_key, slog, general_config>>

\* config.py 80-87: the record of a function
FuncDict(func_rec) ==
    [id |-> <<func_rec.function_schema, ".", func_rec.function_name>>,
     schema |-> func_rec.function_schema,
     function |-> func_rec.function_name,
     minzoom |-> 0, maxzoom |-> 22, bounds |-> <<-180, -90, 180, 90>>]

\* variant: only the answer False skips the function
FuncSkippedIfFalse(user, is_publishable) ==
    user /\ PyEqFalse(is_publishable)

\* config.py 72-79: "if for_user: ... if not is_publishable: continue"
FuncSkipped(user, is_publishable) == user /\ PyNot(is_publishable)

\* config.py 70-87: the next function and its EXECUTE check
ForFunc ==
    /\ pc = "for_func"
    /\ IF funcs = <<>>
       THEN /\ pc' = "for_schema"
            /\ UNCHANGED <<funcs, funcs_cfg, raised_at, issued, flog>>
       ELSE LET func_rec == Head(funcs)
                func_name == <<func_rec.function_schema, ".",
                               func_rec.function_name>>
            IN  /\ funcs' = Tail(funcs)
                /\ issued' = IF for_user
                             THEN issued \cup {"function_is_publishable"}
                             ELSE issued
                /\ \E answer \in (IF for_user THEN PrivResults \cup {Error}
                                            ELSE {NoValue}) :
                    /\ flog' = [flog EXCEPT ![func_name] =
                                  IF ~for_user THEN "unchecked"
                                  ELSE IF answer = PyTrue THEN "granted"
                                  ELSE IF answer = Error THEN "raised"
                                  ELSE "refused"]
                    /\ IF answer = Error
                       THEN /\ Abort("function_is_publishable")
                            /\ UNCHANGED funcs_cfg
                       ELSE IF FuncSkipped(for_user, answer)
                       THEN UNCHANGED <<pc, raised_at, funcs_cfg>>
                       ELSE /\ funcs_cfg' =
                                 Update(funcs_cfg, TableKey(func_name),
                                        FuncDict(func_rec))
                            /\ UNCHANGED <<pc, raised_at>>
    /\ handles' = async_with(pc', handles)
    /\ UNCHANGED <<lib, exc, args, schemas, available_schemas, schema, tables,
                   table,
                   will_publish, comment, call, schemas_cfg, result, tlog,
                   no_publish_key, slog, general_config>>

\* variant: both keys are returned whatever the maps hold
ReturnValueBothKeys(tcfg, fcfg) ==
    [none |-> FALSE,
     dict |-> ("table_sources:" :> tcfg) @@ ("function_sources:" :> fcfg)]

\* config.py 89-95: the three returns, and None when the function falls
\* through
ReturnValue(tcfg, fcfg) ==
    IF DOMAIN tcfg # {} /\ DOMAIN fcfg # {}
    THEN [none |-> FALSE,
          dict |-> ("table_sources:" :> tcfg) @@ ("function_sources:" :> fcfg)]
    ELSE IF DOMAIN tcfg # {}
    THEN [none |-> FALSE, dict |-> ("table_sources:" :> tcfg)]
    ELSE IF DOMAIN fcfg # {}
    THEN [none |-> FALSE, dict |-> ("function_sources:" :> fcfg)]
    ELSE NoResult

\* config.py 89-95
Return ==
    /\ pc = "return"
    /\ result' = ReturnValue(schemas_cfg, funcs_cfg)
    /\ pc' = "done"
    /\ UNCHANGED <<lib, handles, exc, args, schemas, available_schemas,
                   raised_at, schema, tables,
                   table, will_publish, comment, call, funcs, schemas_cfg,
                   funcs_cfg, tlog, no_publish_key, slog, issued, flog,
                   general_config>>

\* __main__.py 98: general_config.update(schemas_config or {})
Main ==
    /\ pc = "done"
    /\ general_config' =
         [k \in DOMAIN general_config \cup DOMAIN result.dict |->
            IF k \in DOMAIN result.dict THEN result.dict[k]
                                        ELSE general_config[k]]
    /\ pc' = "dumped"
    /\ UNCHANGED <<lib, handles, exc, args, schemas, available_schemas,
                   raised_at, schema, tables,
                   table, will_publish, comment, call, funcs, schemas_cfg,
                   funcs_cfg, result, tlog, no_publish_key, slog, issued, flog>>

Next ==
    \/ CreatePool
    \/ ListSchemas
    \/ ForSchema
    \/ ListTables
    \/ ForTable
    \/ GetTableColumns
    \/ GetBbox
    \/ GetTablePrimaryKey
    \/ ForProperty
    \/ ListFunctionSources
    \/ ForFunc
    \/ Return
    \/ Main

Spec == Init /\ [][Next]_vars

(***************************************************************************)
(* The comment functions and list_tables of db.py, called one after the    *)
(* other on a database.  A comment is text: urlencode writes it,           *)
(* parse_qsl reads it.                                                     *)
(***************************************************************************)
\* str.split(sep) on text
RECURSIVE split_on(_, _)
split_on(text, sep) ==
    IF text = <<>> THEN << <<>> >>
    ELSE LET rest == split_on(Tail(text), sep) IN
         IF Head(text) = sep
         THEN << <<>> >> \o rest
         ELSE << <<Head(text)>> \o Head(rest) >> \o Tail(rest)

\* the characters quote_plus escapes, with their escapes
Escapes ==
    ("&" :> <<"%", "2", "6">>) @@ ("=" :> <<"%", "3", "D">>) @@
    ("+" :> <<"%", "2", "B">>) @@ ("%" :> <<"%", "2", "5">>)

\* urllib.parse.quote_plus: a blank becomes +, a reserved character its
\* escape, letters, digits and _ stay
RECURSIVE quote_plus(_)
quote_plus(text) ==
    IF text = <<>> THEN <<>>
    ELSE (IF Head(text) = " " THEN <<"+">>
          ELSE IF Head(text) \in DOMAIN Escapes THEN Escapes[Head(text)]
          ELSE <<Head(text)>>) \o quote_plus(Tail(text))

\* parse_qsl: replace('+', ' ') and unquote
RECURSIVE unquote_plus(_)
unquote_plus(text) ==
    IF text = <<>> THEN <<>>
    ELSE IF Head(text) = "+" THEN <<" ">> \o unquote_plus(Tail(text))
    ELSE IF /\ Head(text) = "%" /\ Len(text) >= 3
            /\ \E c \in DOMAIN Escapes : Escapes[c] = SubSeq(text, 1, 3)
    THEN << CHOOSE c \in DOMAIN Escapes : Escapes[c] = SubSeq(text, 1, 3) >>
         \o unquote_plus(SubSeq(text, 4, Len(text)))
    ELSE <<Head(text)>> \o unquote_plus(Tail(text))

\* str.join
RECURSIVE join(_, _)
join(sep, items) ==
    IF items = <<>> THEN <<>>
    ELSE IF Len(items) = 1 THEN items[1]
    ELSE items[1] \o <<sep>> \o join(sep, Tail(items))

\* variant: the pairs are joined by ";"
urlencode_semicolon(value) ==
    join(";", [i \in 1..Len(value) |->
                 quote_plus(value[i][1]) \o <<"=">> \o quote_plus(value[i][2])])

\* urllib.parse.urlencode of a dict, given as its items in order
urlencode(value) ==
    join("&", [i \in 1..Len(value) |->
                 quote_plus(value[i][1]) \o <<"=">> \o quote_plus(value[i][2])])

\* parse_qsl: the name=value items of a text, unquoted; an item without "="
\* is left out
name_values(text) ==
    LET items == SelectSeq(split_on(text, "&"),
                           LAMBDA item : \E i \in 1..Len(item) : item[i] = "=")
        cut(item) == CHOOSE i \in 1..Len(item) :
                        /\ item[i] = "="
                        /\ \A j \in 1..(i - 1) : item[j] # "="
    IN  [i \in 1..Len(items) |->
           << unquote_plus(SubSeq(items[i], 1, cut(items[i]) - 1)),
              unquote_plus(SubSeq(items[i], cut(items[i]) + 1,
                                  Len(items[i]))) >>]

\* the keys and the values of the annotation maps that are written
AnnotationPairs ==
    ({<<"p", "u", "b">>} \X
        {<<"T", "r", "u", "e">>, <<>>, <<"a", "&", " ", "=">>}) \cup
    {<< <<"n", "_", "2">>, <<"a", "_", "1">> >>}

\* a dict as its items in insertion order: no key twice
Maps ==
    { m \in SeqsUpTo(AnnotationPairs, 2) :
        \A i, j \in 1..Len(m) : i # j => m[i][1] # m[j][1] }

\* the table arguments: the tables of the database, and a name without schema
TableArgs == DbTables \cup {<<"roads">>}
\* the column arguments: the columns of zambia.poverty, and the blank name
ColumnArgs == {"pub_ctr", "internal_id", ""}
\* the schema arguments of list_tables: None, blank, or a name
SchemaArgs == {PyNone, "", "public", "zambia", "pg_catalog"}

\* "assert table not in ('', None)" and "assert '.' in table"
fully_qualified(t) == t # <<>> /\ \E i \in 1..Len(t) : t[i] = "."

\* COMMENT ON ... IS: the statement of set_table_comment.sql,
\* set_col_comment.sql and, with NULL, of the delete files
comment_on(st, o, text) == [st EXCEPT ![o] = text]

\* the comment that get_table_comment.sql and get_col_comment.sql select
obj_description(st, o) == st[o]

\* variant: the new pairs are written after the comment that is there
set_comment_appending(st, o, value) ==
    comment_on(st, o,
               IF st[o] = <<>> THEN urlencode(value)
               ELSE st[o] \o <<"&">> \o urlencode(value))

\* db.set_table_comment 220-230 and db.set_column_comment 156-167
set_comment(st, o, value) == comment_on(st, o, urlencode(value))

\* db.delete_table_comment 280-286 and db.delete_column_comment 182-191
delete_comment(st, o) == comment_on(st, o, <<>>)

\* db.get_table_comment 250-259 and db.get_column_comment 116-127
get_comment(st, o) == dict(parse_qsl(name_values(obj_description(st, o))))

\* the databases the calls start on: without comments, or with a comment on
\* every table and column
Stores ==
    { [o \in Objects |-> <<>>],
      [o \in Objects |-> urlencode(<< << <<"o", "l", "d">>, <<"1">> >> >>)] }

DbInit ==
    /\ db_schemas = {"public"}
    /\ for_user = FALSE
    /\ skip_function_sources = FALSE
    /\ schemas = <<>>
    /\ RunInit
    /\ store \in Stores
    /\ op = NoCall
    /\ queries = <<>>
    /\ ret = NoReturn
    /\ ncalls = 0
    /\ DsnIdle
    /\ MoreIdle

\* a call is over: what it ran and what it returned
Called(name, o, value, ran, raised, tbls, d) ==
    /\ op' = [name |-> name, object |-> o, value |-> value]
    /\ queries' = ran
    /\ ret' = [raised |-> raised, tables |-> tbls, dict |-> d]
    /\ ncalls' = ncalls + 1

\* the rows list_schema_tables.sql and list_tables.sql can answer
TableRows ==
    SUBSET { [schemaname |-> t[1], tablename |-> t[3]] : t \in DbTables }

\* db.list_tables 590-615
ListTablesCall ==
    /\ ncalls < MaxCalls
    /\ \E s \in SchemaArgs, failed \in {"no", "list_schemas", "fetch"} :
       \E res \in (IF failed = "no" THEN TableRows ELSE {{}}) :
        LET listed == list_schemas(db_schemas \cup ReservedSchemas)
            found == {TableId(e.schemaname, e.tablename) : e \in res}
        IN
        IF s = PyNone
        THEN Called("list_tables", <<s>>, <<>>, <<"list_tables.sql">>,
                    failed # "no", found, <<>>)
        ELSE IF s = ""
        THEN Called("list_tables", <<s>>, <<>>, <<>>, TRUE, {}, <<>>)
        ELSE IF failed = "list_schemas" \/ ~list_tables_asserts(s, listed)
        THEN Called("list_tables", <<s>>, <<>>, <<"list_schemas.sql">>,
                    TRUE, {}, <<>>)
        ELSE Called("list_tables", <<s>>, <<>>,
                    <<"list_schemas.sql", "list_schema_tables.sql">>,
                    failed # "no", found, <<>>)
    /\ UNCHANGED <<run, store, conn, dsn, back, more>>

\* a call of one of the two set functions on the table or column o
SetCall(name, file, o, valid, value) ==
    \E failed \in BOOLEAN :
        IF ~valid \/ value = <<>>
        THEN \* the asserts on the arguments
             /\ Called(name, o, value, <<>>, TRUE, {}, <<>>)
             /\ UNCHANGED store
        ELSE IF failed
        THEN /\ Called(name, o, value, <<file>>, TRUE, {}, <<>>)
             /\ UNCHANGED store
        ELSE /\ Called(name, o, value, <<file>>, FALSE, {}, <<>>)
             /\ store' = set_comment(store, o, value)

\* a call of one of the two delete functions
DeleteCall(name, file, o, valid) ==
    \E failed \in BOOLEAN :
        IF ~valid
        THEN /\ Called(name, o, <<>>, <<>>, TRUE, {}, <<>>)
             /\ UNCHANGED store
        ELSE IF failed
        THEN /\ Called(name, o, <<>>, <<file>>, TRUE, {}, <<>>)
             /\ UNCHANGED store
        ELSE /\ Called(name, o, <<>>, <<file>>, FALSE, {}, <<>>)
             /\ store' = delete_comment(store, o)

\* a call of one of the two get functions
GetCall(name, file, o, valid) ==
    /\ \E failed \in BOOLEAN :
        IF ~valid
        THEN Called(name, o, <<>>, <<>>, TRUE, {}, <<>>)
        ELSE IF failed
        THEN Called(name, o, <<>>, <<file>>, TRUE, {}, <<>>)
        ELSE Called(name, o, <<>>, <<file>>, FALSE, {}, get_comment(store, o))
    /\ UNCHANGED store

\* db.set_table_comment 194-230
SetTableComment ==
    /\ ncalls < MaxCalls
    /\ \E t \in TableArgs, value \in Maps :
        SetCall("set_table_comment", "set_table_comment.sql", t,
                fully_qualified(t), value)
    /\ UNCHANGED <<run, conn, dsn, back, more>>

\* db.get_table_comment 233-259
GetTableComment ==
    /\ ncalls < MaxCalls
    /\ \E t \in TableArgs :
        GetCall("get_table_comment", "get_table_comment.sql", t,
                fully_qualified(t))
    /\ UNCHANGED <<run, conn, dsn, back, more>>

\* db.delete_table_comment 262-286
DeleteTableComment ==
    /\ ncalls < MaxCalls
    /\ \E t \in TableArgs :
        DeleteCall("delete_table_comment", "delete_table_comment.sql", t,
                   fully_qualified(t))
    /\ UNCHANGED <<run, conn, dsn, back, more>>

\* db.set_column_comment 130-167
SetColumnComment ==
    /\ ncalls < MaxCalls
    /\ \E column \in ColumnArgs, value \in Maps :
        SetCall("set_column_comment", "set_col_comment.sql",
                <<TableId("zambia", "poverty"), column>>, column # "", value)
    /\ UNCHANGED <<run, conn, dsn, back, more>>

\* db.get_column_comment 101-127
GetColumnComment ==
    /\ ncalls < MaxCalls
    /\ \E column \in ColumnArgs :
        GetCall("get_column_comment", "get_col_comment.sql",
                <<TableId("zambia", "poverty"), column>>, column # "")
    /\ UNCHANGED <<run, conn, dsn, back, more>>

\* db.delete_column_comment 170-191
DeleteColumnComment ==
    /\ ncalls < MaxCalls
    /\ \E column \in ColumnArgs :
        DeleteCall("delete_column_comment", "delete_col_comment.sql",
                   <<TableId("zambia", "poverty"), column>>, column # "")
    /\ UNCHANGED <<run, conn, dsn, back, more>>

DbNext ==
    \/ ListTablesCall
    \/ SetTableComment
    \/ GetTableComment
    \/ DeleteTableComment
    \/ SetColumnComment
    \/ GetColumnComment
    \/ DeleteColumnComment

DbSpec == DbInit /\ [][DbNext]_vars

(***************************************************************************)
(* utils.cd2s and utils.cs2d.  A descriptor is a record; its options are   *)
(* the items of **kwargs in order.  The DSN is text, the scheme            *)
(* "postgres://" one token of it.                                          *)
(***************************************************************************)
\* str(port) and int(text) for a port number
Digits == <<"0", "1", "2", "3", "4", "5", "6", "7", "8", "9">>

RECURSIVE str(_)
str(n) ==
    IF n < 10 THEN <<Digits[n + 1]>>
    ELSE str(n \div 10) \o <<Digits[(n % 10) + 1]>>

RECURSIVE int(_)
int(text) ==
    IF text = <<>> THEN 0
    ELSE int(SubSeq(text, 1, Len(text) - 1)) * 10
         + (CHOOSE i \in 1..10 : Digits[i] = text[Len(text)]) - 1

\* urllib.parse.unquote: escapes are resolved, "+" stays
RECURSIVE unquote(_)
unquote(text) ==
    IF text = <<>> THEN <<>>
    ELSE IF /\ Head(text) = "%" /\ Len(text) >= 3
            /\ \E c \in DOMAIN Escapes : Escapes[c] = SubSeq(text, 1, 3)
    THEN << CHOOSE c \in DOMAIN Escapes : Escapes[c] = SubSeq(text, 1, 3) >>
         \o unquote(SubSeq(text, 4, Len(text)))
    ELSE <<Head(text)>> \o unquote(Tail(text))

\* str.replace(old, new)
RECURSIVE replace(_, _, _)
replace(text, old, new) ==
    IF Len(text) < Len(old) THEN text
    ELSE IF SubSeq(text, 1, Len(old)) = old
    THEN new \o replace(SubSeq(text, Len(old) + 1, Len(text)), old, new)
    ELSE <<Head(text)>> \o replace(Tail(text), old, new)

\* old in text
contains(text, old) ==
    \E i \in 1..(Len(text) - Len(old) + 1) :
        SubSeq(text, i, i + Len(old) - 1) = old

\* the part of text before the first sep, and the part after it
before(text, sep) ==
    IF \E i \in 1..Len(text) : text[i] = sep
    THEN SubSeq(text, 1, (CHOOSE i \in 1..Len(text) :
                            /\ text[i] = sep
                            /\ \A j \in 1..(i - 1) : text[j] # sep) - 1)
    ELSE text

after(text, sep) ==
    IF \E i \in 1..Len(text) : text[i] = sep
    THEN SubSeq(text, (CHOOSE i \in 1..Len(text) :
                         /\ text[i] = sep
                         /\ \A j \in 1..(i - 1) : text[j] # sep) + 1,
                Len(text))
    ELSE <<>>

ssl == <<"s", "s", "l">>
sslmode == <<"s", "s", "l", "m", "o", "d", "e">>

\* utils.cd2s 41-43: the option ssl is passed on as sslmode, as the last
\* item, or in place when sslmode is given too
cd2s_kwargs(kwargs) ==
    IF \E i \in 1..Len(kwargs) : kwargs[i][1] = ssl
    THEN LET v == kwargs[CHOOSE i \in 1..Len(kwargs) : kwargs[i][1] = ssl][2]
             rest == SelectSeq(kwargs, LAMBDA kv : kv[1] # ssl)
         IN  IF \E i \in 1..Len(rest) : rest[i][1] = sslmode
             THEN [i \in 1..Len(rest) |->
                     IF rest[i][1] = sslmode THEN <<sslmode, v>> ELSE rest[i]]
             ELSE Append(rest, <<sslmode, v>>)
    ELSE kwargs

\* utils.cd2s 44-45
cd2s(d) ==
    <<"postgres://">> \o quote_plus(d.user) \o <<":">> \o
    quote_plus(d.password) \o <<"@">> \o quote_plus(d.host) \o <<":">> \o
    str(d.port) \o <<"/">> \o d.database \o <<"?">> \o
    urlencode(cd2s_kwargs(d.options))

\* utils.cs2d 61-97, on a URL with scheme, user, password, host, port and
\* path; urlparse gives the host name in lower case
cs2d(url) ==
    LET rest == Tail(url)
        netloc == before(rest, "/")
        path == before(after(rest, "/"), "?")
        query == after(after(rest, "/"), "?")
        userinfo == before(netloc, "@")
        hostport == after(netloc, "@")
        hostname == lower(before(hostport, ":"))
        port == int(after(hostport, ":"))
        q == IF contains(query, sslmode) THEN replace(query, sslmode, ssl)
                                         ELSE query
    IN  [options |-> IF query # <<>> THEN parse_qsl(name_values(q)) ELSE <<>>,
         database |-> unquote(path),
         user |-> unquote(before(userinfo, ":")),
         password |-> unquote(after(userinfo, ":")),
         host |-> hostname,
         port |-> port]

\* the options a descriptor can have
DsnOptions ==
    { <<ssl, <<"o", "n">>>>,
      << <<"a", "p", "p">>, <<"s", "s", "l", "m", "o", "d", "e", "1">> >>,
      << <<"t", "a", "g">>, <<"a", "&", "1">> >> }

\* the descriptors that are converted
Descriptors ==
    [user : {<<"u", "1">>, <<"u", "=">>},
     password : {<<"p", "1">>, <<"p", "&", "%">>, <<"p", " ", "1">>},
     host : {<<"n", "a", "s">>, <<"N", "A", "S">>},
     port : {5432},
     database : {<<"d", "_", "1">>},
     options : { o \in SeqsUpTo(DsnOptions, 2) :
                   \A i, j \in 1..Len(o) : i # j => o[i][1] # o[j][1] }]

DsnInit ==
    /\ db_schemas = {}
    /\ for_user = FALSE
    /\ skip_function_sources = FALSE
    /\ schemas = <<>>
    /\ RunInit
    /\ DbIdle
    /\ conn \in Descriptors
    /\ dsn = <<>>
    /\ back = NoDescriptor
    /\ MoreIdle

\* dsn = cd2s(**conn)
Cd2s ==
    /\ conn # NoDescriptor
    /\ dsn = <<>>
    /\ dsn' = cd2s(conn)
    /\ UNCHANGED <<run, store, op, queries, ret, ncalls, conn, back,
                   more>>

\* back = cs2d(dsn)
Cs2d ==
    /\ dsn # <<>>
    /\ back = NoDescriptor
    /\ back' = cs2d(dsn)
    /\ UNCHANGED <<run, store, op, queries, ret, ncalls, conn, dsn,
                   more>>

DsnNext == Cd2s \/ Cs2d

DsnSpec == DsnInit /\ [][DsnNext]_vars

(***************************************************************************)
(* db.database_exists and db.list_databases, called one after the other.   *)
(***************************************************************************)
\* the dsn argument: None when the descriptor is given by keywords, the
\* empty text, or a connection string
DsnArgs == {PyNone, "", "postgres://"}

\* asyncpg.connect returned a connection
connect(n) == n + 1

\* Connection.close
close(n) == n - 1

\* the run and the other library functions stay as they start
ConnInit ==
    /\ db_schemas = {}
    /\ for_user = FALSE
    /\ skip_function_sources = FALSE
    /\ schemas = <<>>
    /\ RunInit
    /\ DbIdle
    /\ DsnIdle
    /\ MoreIdle

\* a call of database_exists or list_databases is over
Replied(name, d, raised, exists, names, n) ==
    /\ op' = [name |-> name, object |-> <<d>>, value |-> <<>>]
    /\ reply' = [raised |-> raised, exists |-> exists, databases |-> names]
    /\ open_conns' = n
    /\ ncalls' = ncalls + 1

\* db.database_exists 519-538
DatabaseExists ==
    /\ ncalls < MaxConnCalls
    /\ \E d \in DsnArgs, answer \in {"ok", "InvalidCatalogNameError", Error} :
        IF d = ""
        THEN \* line 528: the assert is not an InvalidCatalogNameError
             Replied("database_exists", d, TRUE, PyNone, <<>>, open_conns)
        ELSE IF answer = "ok"
        THEN \* lines 530-536
             Replied("database_exists", d, FALSE, PyTrue, <<>>,
                     close(connect(open_conns)))
        ELSE IF answer = "InvalidCatalogNameError"
        THEN \* lines 537-538: connect raised, no connection was made
             Replied("database_exists", d, FALSE, PyFalse, <<>>, open_conns)
        ELSE \* connect raised another exception
             Replied("database_exists", d, TRUE, PyNone, <<>>, open_conns)
    /\ UNCHANGED <<run, store, queries, ret, conn, dsn, back, content,
                   input_dict, yaml_config, geoms, by_cfg2, by_db>>

\* db.list_databases 541-568
ListDatabases ==
    /\ ncalls < MaxConnCalls
    /\ \E d \in DsnArgs, answer \in {"ok", "connect", "query"} :
       \E res \in Orderings(Databases) :
        IF d = ""
        THEN \* line 551
             Replied("list_databases", d, TRUE, PyNone, <<>>, open_conns)
        ELSE IF answer = "connect"
        THEN \* lines 555-559: connect raised
             Replied("list_databases", d, TRUE, PyNone, <<>>, open_conns)
        ELSE IF answer = "query"
        THEN \* lines 561-566: get_sqlfile_content or run_query raised, and
             \* line 567 is not reached
             Replied("list_databases", d, TRUE, PyNone, <<>>,
                     connect(open_conns))
        ELSE \* lines 567-568
             Replied("list_databases", d, FALSE, PyNone, res,
                     close(connect(open_conns)))
    /\ UNCHANGED <<run, store, queries, ret, conn, dsn, back, content,
                   input_dict, yaml_config, geoms, by_cfg2, by_db>>

ConnNext == DatabaseExists \/ ListDatabases

ConnSpec == ConnInit /\ [][ConnNext]_vars

(***************************************************************************)
(* utils.dump, called several times in one process.  A mapping is the      *)
(* sequence of its items in insertion order; a value has its Python type,  *)
(* the text str() gives for it and, for a dict, its items.  content is the *)
(* list object that the default argument of dump is bound to.              *)
(***************************************************************************)
TrueText == <<"T", "r", "u", "e">>
FalseText == <<"F", "a", "l", "s", "e">>

PyBool(text) == [py |-> "bool", repr |-> text, items |-> <<>>]
PyStr(text) == [py |-> "str", repr |-> text, items |-> <<>>]
PyInt(text) == [py |-> "int", repr |-> text, items |-> <<>>]
PyDict(items) == [py |-> "dict", repr |-> <<>>, items |-> items]

\* the record of a table with one property, and of one without
PovertyRecord ==
    PyDict(<< <<"id", PyStr(<<"zambia.poverty">>)>>,
            <<"srid", PyInt(<<"3", "8", "5", "7">>)>>,
            <<"clip_geometry", PyBool(TrueText)>>,
            <<"properties:", PyDict(<< <<"pub_ctr", PyStr(<<"float8">>)>> >>)>> >>)

RoadsRecord ==
    PyDict(<< <<"id", PyStr(<<"public.roads">>)>>,
            <<"properties:", PyDict(<<>>)>>,
            <<"id_column", PyStr(<<"~">>)>> >>)

TilesRecord ==
    PyDict(<< <<"id", PyStr(<<"zambia.tiles">>)>>,
            <<"minzoom", PyInt(<<"0">>)>> >>)

\* the mappings dump is called with
Mappings ==
    { <<>>,
      << <<"watch", PyBool(FalseText)>> >>,
      << <<"watch", PyStr(TrueText)>> >>,
      << <<"pool_size", PyInt(<<"2", "0">>)>>,
         <<"watch", PyBool(FalseText)>>,
         <<"danger_accept_invalid_certs", PyBool(TrueText)>> >>,
      << <<"danger_accept_invalid_certs", PyBool(TrueText)>>,
         <<"pool_size", PyInt(<<"2", "0">>)>> >>,
      << <<"properties:", PyDict(<<>>)>>, <<"watch", PyBool(TrueText)>> >>,
      << <<"table_sources:", PyDict(<<>>)>> >>,
      << <<"keep_alive", PyInt(<<"7", "5">>)>>,
         <<"table_sources:", PyDict(<< <<"zambia.poverty:", PovertyRecord>> >>)>>
      >>,
      << <<"table_sources:",
           PyDict(<< <<"zambia.poverty:", PovertyRecord>>,
                   <<"public.roads:", RoadsRecord>> >>)>>,
         <<"function_sources:", PyDict(<< <<"zambia.tiles:", TilesRecord>> >>)>>
      >>,
      << <<"table_sources:",
           PyDict(<< <<"public.roads:", RoadsRecord>>,
                   <<"zambia.poverty:", PovertyRecord>> >>)>>,
         <<"watch", PyBool(FalseText)>> >>,
      << <<"function_sources:", PyDict(<< <<"zambia.tiles:", TilesRecord>> >>)>>,
         <<"listen_addresses", PyStr(<<"'0.0.0.0:3000'">>)>> >> }

\* line 114: ''.join(depth * [' '])
spacer(depth) == [i \in 1..depth |-> " "]

\* variant: str(v) for every scalar
scalar_str(v) == v.repr

\* line 122: str(v).lower() if type(v) is bool else v
scalar(v) == IF v.py = "bool" THEN lower(v.repr) ELSE v.repr

\* lines 115-122: the list after the loop over the items; an empty mapping
\* adds nothing
RECURSIVE dump_content(_, _, _)
dump_content(items, depth, list) ==
    IF items = <<>> THEN list
    ELSE LET k == items[1][1]
             v == items[1][2]
         IN  IF v.py = "dict"
             THEN dump_content(
                      Tail(items), depth,
                      dump_content(v.items, depth + 2,
                                   Append(list, spacer(depth) \o <<k>>)))
             ELSE dump_content(
                      Tail(items), depth,
                      Append(list, spacer(depth) \o <<k, ":", " ">>
                                       \o scalar(v)))

\* lines 115 and 123: the text is returned inside "if input_dict:", an empty
\* mapping returns None
dump(items, depth, list) ==
    IF items # <<>>
    THEN [none |-> FALSE,
          text |-> join("\n", dump_content(items, depth, list))]
    ELSE NoText

\* the process has started, dump was not called
DumpInit ==
    /\ db_schemas = {}
    /\ for_user = FALSE
    /\ skip_function_sources = FALSE
    /\ schemas = <<>>
    /\ RunInit
    /\ DbIdle
    /\ DsnIdle
    /\ MoreIdle

\* yaml_config = utils.dump(input_dict), with the default depth and content
Dump ==
    /\ ncalls < MaxDumps
    /\ \E d \in Mappings :
        /\ input_dict' = d
        /\ yaml_config' = dump(d, 0, content)
        /\ content' = dump_content(d, 0, content)
    /\ ncalls' = ncalls + 1
    /\ UNCHANGED <<run, store, op, queries, ret, conn, dsn, back, reply,
                   open_conns, geoms, by_cfg2, by_db>>

DumpNext == Dump

DumpSpec == DumpInit /\ [][DumpNext]_vars

(***************************************************************************)
(* cfg.get_table_cfg2 and db.get_table_cfg on the geometry columns of one  *)
(* table.  get_columns2 answers the type of a column as text, such as      *)
(* geometry(Point,3857); get_table_columns answers its SRID as a number.   *)
(***************************************************************************)
\* the geometry columns a table can have; an SRID is any number the
\* database was given, 38570 is one that is not 3857 and has its digits
GeomColumns ==
    { [column_name |-> "geom", type |-> "MultiPolygon", srid |-> 3857],
      [column_name |-> "geom_ll", type |-> "Point", srid |-> 4326],
      [column_name |-> "geom_fr", type |-> "Polygon", srid |-> 2154],
      [column_name |-> "geom_wm", type |-> "Point", srid |-> 3857],
      [column_name |-> "geom_cu", type |-> "Point", srid |-> 38570] }

\* the geometry columns of a table, in the order of their attnum
TableGeoms ==
    { g \in SeqsUpTo(GeomColumns, MaxGeoms) :
        \A i, j \in 1..Len(g) :
            i # j => g[i].column_name # g[j].column_name }

geometry == <<"g", "e", "o", "m", "e", "t", "r", "y">>

\* pg_catalog.format_type of a geometry column with a type modifier
format_type(c) == geometry \o <<"(", c.type, ",">> \o str(c.srid) \o <<")">>

\* cfg.get_columns2: every column of the table, here an integer column and
\* the geometry columns
get_columns2(g) ==
    << [column_name |-> "id",
        data_type |-> <<"i", "n", "t", "e", "g", "e", "r">>] >> \o
    [i \in 1..Len(g) |->
        [column_name |-> g[i].column_name, data_type |-> format_type(g[i])]]

\* db.get_table_columns: one row per geometry column
GeometryRows(g) ==
    [i \in 1..Len(g) |->
        [geom_column |-> g[i].column_name, srid |-> g[i].srid,
         type |-> g[i].type, properties |-> PropertiesJson]]

\* variant: the last element that is True
index_last(expr) ==
    CHOOSE i \in 1..Len(expr) :
        expr[i] /\ \A j \in (i + 1)..Len(expr) : ~expr[j]

\* list.index(True): the first element that is True
index(expr) ==
    CHOOSE i \in 1..Len(expr) : expr[i] /\ \A j \in 1..(i - 1) : ~expr[j]

any(expr) == \E i \in 1..Len(expr) : expr[i]

\* cfg.get_table_cfg2 829-870: the name of the geometry column selected,
\* None for a table without geometry column
get_table_cfg2(columns2) ==
    LET geom_columns ==
            SelectSeq(columns2, LAMBDA e : contains(e.data_type, geometry))
        mentions(digits) ==
            [i \in 1..Len(geom_columns) |->
                contains(geom_columns[i].data_type, digits)]
    IN  IF Len(geom_columns) = 0 THEN PyNone
        ELSE IF Len(geom_columns) = 1 THEN geom_columns[1].column_name
        ELSE IF any(mentions(<<"3", "8", "5", "7">>))
        THEN geom_columns[index(mentions(<<"3", "8", "5", "7">>))].column_name
        ELSE IF any(mentions(<<"4", "3", "2", "6">>))
        THEN geom_columns[index(mentions(<<"4", "3", "2", "6">>))].column_name
        ELSE geom_columns[1].column_name

\* db.get_table_cfg 676-688: the name of the geometry column selected, None
\* for a table without geometry row
get_table_cfg(rows) ==
    IF rows = <<>> THEN PyNone ELSE PickRow(rows).geom_column

\* a table, before either resolver is called on it
GeomInit ==
    /\ db_schemas = {}
    /\ for_user = FALSE
    /\ skip_function_sources = FALSE
    /\ schemas = <<>>
    /\ RunInit
    /\ DbIdle
    /\ DsnIdle
    /\ content = <<>>
    /\ input_dict = <<>>
    /\ yaml_config = NoText
    /\ reply = NoReply
    /\ open_conns = 0
    /\ geoms \in TableGeoms
    /\ by_cfg2 = NoValue
    /\ by_db = NoValue

\* cfg.get_table_cfg2 on the table
GetTableCfg2 ==
    /\ by_cfg2 = NoValue
    /\ by_cfg2' = get_table_cfg2(get_columns2(geoms))
    /\ UNCHANGED <<run, store, op, queries, ret, ncalls, conn, dsn, back,
                   content, input_dict, yaml_config, reply, open_conns,
                   geoms, by_db>>

\* db.get_table_cfg on the table
GetTableCfg ==
    /\ by_db = NoValue
    /\ by_db' = get_table_cfg(GeometryRows(geoms))
    /\ UNCHANGED <<run, store, op, queries, ret, ncalls, conn, dsn, back,
                   content, input_dict, yaml_config, reply, open_conns,
                   geoms, by_cfg2>>

GeomNext == GetTableCfg2 \/ GetTableCfg

GeomSpec == GeomInit /\ [][GeomNext]_vars

(***************************************************************************)
(* Properties.                                                             *)
(***************************************************************************)
Rows(c) == {c[i] : i \in 1..Len(c)}

\* the record merged for the current table carries the row the loop ended on
RecordFollowsRow ==
    (table # <<>> /\ tlog[table] = "merged" /\ r # NoRow) =>
        LET rec == schemas_cfg[TableKey(table)] IN
        /\ rec.srid = r.srid
        /\ rec.geometry_column = r.geom_column
        /\ rec.geometry_type = r.type

\* C1: when the rows of a table hold a row with SRID 3857, the row selected
\* is one of them with SRID 3857, wherever it stands, and the record carries
\* the srid, geometry column and geometry type of the selected row
C1_Selects3857 ==
    /\ (pc = "get_bbox" /\ Has3857(columns)) =>
           (r \in Rows(columns) /\ r.srid = 3857)
    /\ RecordFollowsRow

C1_Witness ==
    /\ pc = "get_bbox"
    /\ Len(columns) = 3
    /\ columns[1].srid = 4326 /\ columns[2].srid = 3857
    /\ columns[3].srid = 2154
    /\ r = columns[2]

\* C2: when no row has SRID 3857 the row selected is the last one, also when
\* an earlier row has SRID 4326
C2_ElseLastRow ==
    (pc = "get_bbox" /\ ~Has3857(columns)) => r = columns[Len(columns)]

C2_Witness ==
    /\ pc = "get_bbox"
    /\ Len(columns) = 2
    /\ columns[1].srid = 4326 /\ columns[2].srid = 2154
    /\ r = columns[2]

\* C3: a table with one geometry row gets that row, whatever its SRID
C3_SingleRow ==
    (pc = "get_bbox" /\ Len(columns) = 1) => r = columns[1]

C3_Witness ==
    /\ pc = "get_bbox"
    /\ Len(columns) = 1
    /\ columns[1].srid = 2154
    /\ r = columns[1]

C5_ColumnsDefaultShown ==
    (~for_user /\ table # <<>> /\ tlog[table] = "merged" /\ r # NoRow) =>
        LET rec == schemas_cfg[TableKey(table)]
            all == json_loads(r.properties)
        IN  /\ DOMAIN decided = DOMAIN all
            /\ DOMAIN rec.properties =
                 {k \in DOMAIN all : decided[k].value # PyFalse}
            /\ \A k \in DOMAIN rec.properties : rec.properties[k] = all[k]
            /\ \A k \in DOMAIN all :
                /\ decided[k].annotation \in {"none", "true"} =>
                       k \in DOMAIN rec.properties
                /\ decided[k].annotation = "false" =>
                       k \notin DOMAIN rec.properties

C5_Witness ==
    /\ ~for_user /\ pc = "for_table" /\ table # <<>>
    /\ tlog[table] = "merged"
    /\ decided["pub_ctr"].annotation = "none"
    /\ decided["internal_id"].annotation = "false"
    /\ schemas_cfg[TableKey(table)].properties = ("pub_ctr" :> "float8")

\* C6: a publish value that is neither true nor false in any letter case
\* makes the table check and the column check raise
C6_OtherLiteralsRaise ==
    ~for_user =>
        /\ PublishAnnotation(comment) = "other" => will_publish = Raise
        /\ \A k \in DOMAIN decided : decided[k].annotation # "other"

\* C7: the run does not end in the exception of a column fetch, a column
\* check, a function listing or a function check
C7_EntityFailuresCaught ==
    pc = "raised" =>
        raised_at \notin {"get_table_columns", "column_is_publishable",
                          "column_is_accessible", "list_function_sources",
                          "function_is_publishable"}

\* C8: a table whose get_bbox fails is not in table_sources, and the step
\* that fails returns the run to the table loop with the aggregate, the
\* tables and schemas still to do and the error state as they were
C8_BboxFailureSkipsTable ==
    /\ [](\A t \in DbTables :
            tlog[t] = "bbox_failed" => TableKey(t) \notin DOMAIN schemas_cfg)
    /\ [][(pc = "get_bbox" /\ tlog'[table] = "bbox_failed") =>
            /\ pc' = "for_table"
            /\ UNCHANGED <<schemas_cfg, funcs_cfg, tables, schemas, schema,
                           raised_at>>]_vars

C8_Witness ==
    /\ pc = "done"
    /\ \E t, u \in DbTables :
        /\ tlog[t] = "bbox_failed"
        /\ tlog[u] = "merged"
        /\ DOMAIN result.dict["table_sources:"] = {TableKey(u)}

\* C9: with a principal, a schema whose USAGE check is not granted has no
\* table and no function in the aggregate, and the step that finds it denied
\* leaves the aggregate as it was and goes to the next schema
C9_DeniedSchemaContributesNothing ==
    /\ [](for_user =>
            \A s \in UserSchemas : slog[s] = "denied" =>
                /\ \A k \in DOMAIN schemas_cfg : k[1] # s
                /\ \A k \in DOMAIN funcs_cfg : k[1] # s)
    /\ [][(pc = "for_schema" /\ schemas # <<>>
           /\ slog'[Head(schemas)] = "denied") =>
            /\ pc' = "for_schema"
            /\ schemas' = Tail(schemas)
            /\ UNCHANGED <<schemas_cfg, funcs_cfg, raised_at>>]_vars

C9_Witness ==
    /\ for_user
    /\ pc = "done"
    /\ \E s, u \in available_schemas :
        /\ slog[s] = "denied"
        /\ slog[u] = "listed"
        /\ \E k \in DOMAIN schemas_cfg : k[1] = u
        /\ \E k \in DOMAIN funcs_cfg : k[1] = u

\* C10: at a requested schema that list_schemas did not return, the run does
\* not end in an exception and no table or function of it is queried: the
\* run is at the schema loop or past it
C10_MissingSchemaSkipped ==
    (pc \notin {"create_pool", "list_schemas"} /\ schema # NoValue
     /\ schema \notin available_schemas) =>
        pc \in {"for_schema", "return", "done"}

\* C11: with a principal, the step of the table loop that sends a table on
\* to get_table_cfg, the only way into table_sources, has a privilege check
\* that returned true; with any other result the table stays out
C11_GrantTableOnlyIfTrue ==
    /\ [](\A t \in DbTables :
            TableKey(t) \in DOMAIN schemas_cfg => tlog[t] = "merged")
    /\ [][(for_user /\ pc = "for_table" /\ pc' = "get_table_columns") =>
            will_publish' = PyTrue]_vars

\* the db functions that read a comment, and those that ask for a privilege
AnnotationReads == {"table_is_publishable", "column_is_publishable"}
PrivilegeChecks ==
    {"schema_is_accessible", "table_is_accessible", "column_is_accessible",
     "function_is_publishable"}

\* the tables whose publish decision was taken
Decided(t) == tlog[t] \in {"not_publishable", "building", "merged",
                           "no_columns", "bbox_failed", "raised"}
\* the functions whose loop step was taken
Stepped(f) == flog[f] \notin {"unseen", "listed"}

C13_FunctionSources ==
    /\ \A f \in FuncIds :
        /\ for_user =>
             (TableKey(f) \in DOMAIN funcs_cfg <=> flog[f] = "granted")
        /\ ~for_user =>
             (TableKey(f) \in DOMAIN funcs_cfg <=> flog[f] = "unchecked")
        /\ flog[f] = "listed" =>
            /\ pc = "for_func"
            /\ \E i \in 1..Len(funcs) :
                 f = <<funcs[i].function_schema, ".", funcs[i].function_name>>
    /\ \A k \in DOMAIN funcs_cfg :
        /\ funcs_cfg[k].minzoom = 0
        /\ funcs_cfg[k].maxzoom = 22
        /\ funcs_cfg[k].bounds = <<-180, -90, 180, 90>>
    /\ (pc = "done" /\ "function_sources:" \in DOMAIN result.dict) =>
           result.dict["function_sources:"] = funcs_cfg

C13_Witness ==
    /\ for_user
    /\ pc = "done"
    /\ \E f, g \in FuncIds :
        /\ flog[f] = "granted"
        /\ flog[g] = "refused"
        /\ DOMAIN result.dict["function_sources:"] = {TableKey(f)}

\* C14: when skip_function_sources is set no function is listed or checked
\* for any schema, and neither the aggregate nor the document has a
\* function_sources key
C14_SkipFunctionSources ==
    skip_function_sources =>
        /\ issued \cap {"list_function_sources", "function_is_publishable"}
             = {}
        /\ funcs = <<>> /\ funcs_cfg = <<>>
        /\ \A f \in FuncIds : flog[f] = "unseen"
        /\ "function_sources:" \notin DOMAIN result.dict
        /\ "function_sources:" \notin DOMAIN general_config

C14_Witness ==
    /\ skip_function_sources
    /\ pc = "dumped"
    /\ \A s \in UserSchemas : slog[s] = "listed"
    /\ DOMAIN result.dict = {"table_sources:"}

\* C15: the aggregate has the key table_sources if and only if a table record
\* was built and the key function_sources if and only if a function record
\* was built, never with an empty map; when both maps are empty the run
\* returns None and the document of main holds the general settings only
C15_NoEmptySection ==
    /\ pc \in {"done", "dumped"} =>
        /\ "table_sources:" \in DOMAIN result.dict <=> DOMAIN schemas_cfg # {}
        /\ "function_sources:" \in DOMAIN result.dict <=>
               DOMAIN funcs_cfg # {}
        /\ DOMAIN result.dict \subseteq {"table_sources:", "function_sources:"}
        /\ \A k \in DOMAIN result.dict : DOMAIN result.dict[k] # {}
        /\ (DOMAIN schemas_cfg = {} /\ DOMAIN funcs_cfg = {}) => result.none
    /\ pc = "dumped" =>
        /\ DOMAIN general_config =
             DOMAIN create_general_config \cup DOMAIN result.dict
        /\ \A k \in DOMAIN create_general_config :
             general_config[k] = create_general_config[k]
        /\ \A k \in DOMAIN result.dict : general_config[k] = result.dict[k]
        /\ result.none =>
             DOMAIN general_config = DOMAIN create_general_config

C15_Witness ==
    /\ pc = "dumped"
    /\ result.none
    /\ DOMAIN general_config = DOMAIN create_general_config
    /\ \E t \in DbTables : tlog[t] = "not_publishable"
    /\ \E s \in UserSchemas : slog[s] = "listed"

\* C16: list_schemas never returns information_schema or pg_catalog; when no
\* schemas are requested the schemas iterated are exactly the ones
\* list_schemas returned, each once; no table and no function of a reserved
\* schema is in the aggregate
C16_ReservedSchemasExcluded ==
    /\ [](available_schemas \cap {"information_schema", "pg_catalog"} = {})
    /\ [][(pc = "list_schemas" /\ pc' = "for_schema") =>
            /\ available_schemas' = db_schemas
            /\ schemas = <<>> =>
                /\ {schemas'[i] : i \in 1..Len(schemas')} = available_schemas'
                /\ Len(schemas') = Cardinality(available_schemas')]_vars
    /\ [](/\ schema \notin {"information_schema", "pg_catalog"}
          /\ \A k \in DOMAIN schemas_cfg :
               k[1] \notin {"information_schema", "pg_catalog"}
          /\ \A k \in DOMAIN funcs_cfg :
               k[1] \notin {"information_schema", "pg_catalog"}
          /\ \A k \in DOMAIN result.dict : \A e \in DOMAIN result.dict[k] :
               e[1] \notin {"information_schema", "pg_catalog"})

\* the state after a run over every schema of the database: it is the state
\* that the run without requested schemas ends in
C16_Witness ==
    /\ pc = "done"
    /\ db_schemas = UserSchemas
    /\ available_schemas = UserSchemas
    /\ "function_sources:" \in DOMAIN result.dict
    /\ \A s \in UserSchemas :
        /\ slog[s] = "listed"
        /\ \E k \in DOMAIN result.dict["function_sources:"] : k[1] = s

\* C17: list_tables called with a schema that list_schemas does not return
\* raises and has run neither table-listing file; called with a listed schema
\* it returns only identifiers schema.name
C17_ListTablesChecksSchema ==
    (op.name = "list_tables" /\ op.object # <<PyNone>>) =>
        LET s == op.object[1]
            listed == list_schemas(db_schemas \cup ReservedSchemas)
        IN  /\ s \notin listed =>
                /\ ret.raised
                /\ \A i \in 1..Len(queries) :
                     queries[i] \notin {"list_schema_tables.sql",
                                        "list_tables.sql"}
            /\ (s \in listed /\ ~ret.raised) =>
                /\ queries = <<"list_schemas.sql", "list_schema_tables.sql">>
                /\ \A id \in ret.tables :
                    /\ Len(id) = 3
                    /\ id[2] = "."
                    /\ id[1] # "" /\ id[3] # ""

C17_Witness ==
    /\ db_schemas = {"public"}
    /\ op.name = "list_tables"
    /\ op.object = <<"zambia">>
    /\ ret.raised
    /\ queries = <<"list_schemas.sql">>

\* the characters of [A-Za-z0-9_] that the annotation maps use
WordChars == {"p", "u", "b", "n", "a", "T", "r", "e", "1", "2", "_"}
Word(text) == text # <<>> /\ \A i \in 1..Len(text) : text[i] \in WordChars
\* a non-empty map with keys and values from [A-Za-z0-9_]+
WordMap(m) ==
    m # <<>> /\ \A i \in 1..Len(m) : Word(m[i][1]) /\ Word(m[i][2])

\* C19: a get that follows a set of the non-empty map m, keys and values from
\* [A-Za-z0-9_]+, on the same table or column returns exactly m
C19_CommentRoundTrip ==
    [][\A fs \in {<<"set_table_comment", "get_table_comment">>,
                  <<"set_column_comment", "get_column_comment">>} :
         (/\ op.name = fs[1] /\ ~ret.raised
          /\ op'.name = fs[2] /\ ~ret'.raised
          /\ op'.object = op.object
          /\ WordMap(op.value)) =>
            ret'.dict = dict(op.value)]_vars

C19_Witness ==
    /\ op.name = "get_column_comment"
    /\ ~ret.raised
    /\ store[op.object] =
         urlencode(<< << <<"p", "u", "b">>, <<"T", "r", "u", "e">> >>,
                      << <<"n", "_", "2">>, <<"a", "_", "1">> >> >>)
    /\ DOMAIN ret.dict = {<<"p", "u", "b">>, <<"n", "_", "2">>}
    /\ ret.dict[<<"p", "u", "b">>] = <<"T", "r", "u", "e">>

SetNames == {"set_table_comment", "set_column_comment"}
DeleteNames == {"delete_table_comment", "delete_column_comment"}

\* C20: a set that returns leaves the table or column with the encoding of
\* its value and nothing of the comment that was there, a delete that returns
\* leaves it without comment; the same call made again leaves the database as
\* it is; no call changes the comment of another table or column, and a call
\* that raises changes none
C20_MutatorsReplace ==
    [][LET o == op'.object IN
       /\ (op'.name \in SetNames /\ ~ret'.raised) =>
            /\ store'[o] = urlencode(op'.value)
            /\ DOMAIN get_comment(store', o) \subseteq
                 {op'.value[i][1] : i \in 1..Len(op'.value)}
            /\ (\A i \in 1..Len(op'.value) : op'.value[i][2] # <<>>) =>
                 get_comment(store', o) = dict(op'.value)
            /\ \A x \in Objects \ {o} : store'[x] = store[x]
            /\ (op = op' /\ ~ret.raised) => store' = store
       /\ (op'.name \in DeleteNames /\ ~ret'.raised) =>
            /\ store'[o] = <<>>
            /\ DOMAIN get_comment(store', o) = {}
            /\ \A x \in Objects \ {o} : store'[x] = store[x]
            /\ (op = op' /\ ~ret.raised) => store' = store
       /\ (ret'.raised \/ op'.name \notin SetNames \cup DeleteNames) =>
            store' = store]_vars

C20_Witness ==
    /\ ncalls = 2
    /\ op.name = "set_table_comment"
    /\ ~ret.raised
    /\ Len(op.value) = 2
    /\ store[op.object] = urlencode(op.value)
    /\ \A x \in Objects \ {op.object} :
         store[x] = urlencode(<< << <<"o", "l", "d">>, <<"1">> >> >>)

\* two DSNs are the same but for the order of their options
SameDsn(a, b) ==
    /\ before(a, "?") = before(b, "?")
    /\ LET x == split_on(after(a, "?"), "&")
           y == split_on(after(b, "?"), "&")
       IN  /\ Len(x) = Len(y)
           /\ {x[i] : i \in 1..Len(x)} = {y[i] : i \in 1..Len(y)}

\* C18: cs2d(cd2s(d)) is d in every field, the options as a dict, and
\* cd2s(cs2d(dsn)) is dsn up to the order of the options
C18_DsnRoundTrip ==
    back # NoDescriptor =>
        /\ back.user = conn.user
        /\ back.password = conn.password
        /\ back.host = conn.host
        /\ back.port = conn.port
        /\ back.database = conn.database
        /\ DOMAIN dict(back.options) = DOMAIN dict(conn.options)
        /\ \A k \in DOMAIN dict(conn.options) :
             dict(back.options)[k] = dict(conn.options)[k]
        /\ SameDsn(cd2s(back), dsn)

\* the record of the current table, once it is merged
Merged == table # <<>> /\ tlog[table] = "merged" /\ r # NoRow

\* C28: the row get_table_cfg works with is one row of the table; get_bbox is
\* asked for the table, the geometry column and the SRID of that row; the
\* merged record has the srid, geometry column and geometry type of that row
\* and properties taken from its properties object; the record's id is the
\* table identifier, and its schema and table fields are the two parts of it
C28_RecordCoherent ==
    /\ pc = "get_bbox" => r \in Rows(columns)
    /\ bbox_req # NoBboxReq =>
        bbox_req = [table |-> table, geom_column |-> r.geom_column,
                    srid |-> r.srid]
    /\ Merged =>
        LET rec == schemas_cfg[TableKey(table)]
            all == json_loads(r.properties)
        IN  /\ RecordFollowsRow
            /\ \A k \in DOMAIN rec.properties :
                k \in DOMAIN all /\ rec.properties[k] = all[k]
            /\ bbox_req = [table |-> rec.id,
                           geom_column |-> rec.geometry_column,
                           srid |-> rec.srid]
            /\ rec.id = table
            /\ table = rec.schema \o <<".">> \o rec.table
            /\ Len(rec.schema) = 1 /\ Len(rec.table) = 1

C28_Witness ==
    /\ Merged
    /\ r.srid = 4326
    /\ schemas_cfg[TableKey(table)].geometry_column = "geom_ll"
    /\ schemas_cfg[TableKey(table)].geometry_type = "POINT"
    /\ bbox_req = [table |-> TableId("zambia", "poverty"),
                   geom_column |-> "geom_ll", srid |-> 4326]
    /\ DOMAIN schemas_cfg[TableKey(table)].properties = {"pub_ctr"}

\* C29: a table for which get_table_columns answers no row is never in
\* table_sources, and the step that finds no row takes a table that passed
\* its publish check back to the table loop, with the aggregate, the tables
\* and schemas still to do and the error state as they were
C29_NoGeometryRowNoRecord ==
    /\ [](\A t \in DbTables :
            tlog[t] = "no_columns" => TableKey(t) \notin DOMAIN schemas_cfg)
    /\ [][(pc = "get_table_columns" /\ tlog'[table] = "no_columns") =>
            /\ tlog[table] = "building"
            /\ pc' = "for_table"
            /\ UNCHANGED <<schemas_cfg, funcs_cfg, tables, schemas, schema,
                           raised_at>>]_vars

C29_Witness ==
    /\ ~for_user
    /\ pc = "done"
    /\ \E t, u \in DbTables :
        /\ tlog[t] = "no_columns"
        /\ t \notin no_publish_key
        /\ tlog[u] = "merged"
        /\ DOMAIN result.dict["table_sources:"] = {TableKey(u)}

\* C30: the primary key lookup never ends the resolution of a table: after
\* it the run is at the column loop and the table is still being built; when
\* the lookup failed or answered no row id_column is '~', when it answered
\* rows id_column is the column name of the first row, whatever its type,
\* and the merged record carries that id_column
C30_PrimaryKeyNeverSkips ==
    /\ prim_key_rec.ran =>
        /\ pc = "for_property"
        /\ tlog[table] = "building"
        /\ raised_at = NoValue
        /\ (prim_key_rec.failed \/ prim_key_rec.rows = <<>>) =>
               id_column = "~"
        /\ prim_key_rec.rows # <<>> =>
               id_column = prim_key_rec.rows[1].column_name
    /\ Merged => schemas_cfg[TableKey(table)].id_column = id_column

C30_Witness ==
    /\ prim_key_rec.ran
    /\ prim_key_rec.failed
    /\ pc = "for_property"
    /\ id_column = "~"
    /\ todo # <<>>

\* C22: when the database of the dsn does not exist the run ends with an
\* exception, and that exception carries the names of the databases of the
\* server
C22_DatabaseNotFoundListsDatabases ==
    exc.kind = "InvalidCatalogNameError" =>
        /\ pc = "raised"
        /\ raised_at = "create_pool"
        /\ exc.databases = Databases

\* how the resolution of a table can end
Final == {"check_failed", "not_publishable", "no_columns", "bbox_failed",
          "merged"}

\* C24: a run that got its connection acquired exactly one connection and
\* holds at most that one; the step that takes the next table finds every table seen so
\* far finished (skipped, or its record in the aggregate), and while the
\* functions of a schema are listed and checked no table of the listing is
\* left and every table of that schema is unseen or finished
C24_OneConnectionInSequence ==
    /\ [](/\ handles.conns <= 1
          /\ handles.acquired =
                IF pc = "create_pool" \/ raised_at = "create_pool"
                THEN 0 ELSE 1)
    /\ [][(pc = "for_table" /\ table' # table) =>
            \A u \in DbTables :
                /\ tlog[u] \in Final \cup {"unseen"}
                /\ tlog[u] = "merged" => TableKey(u) \in DOMAIN schemas_cfg]_vars
    /\ [](pc \in {"list_function_sources", "for_func"} =>
            /\ tables = {}
            /\ \A u \in DbTables :
                u[1] = schema => tlog[u] \in Final \cup {"unseen"})

C24_Witness ==
    /\ pc = "for_func"
    /\ funcs # <<>>
    /\ handles = [pool |-> TRUE, acquired |-> 1, conns |-> 1]
    /\ tlog[TableId("zambia", "poverty")] = "merged"
    /\ tlog[TableId("public", "roads")] = "merged"
    /\ table = TableId("public", "roads")
    /\ DOMAIN funcs_cfg = {TableKey(<<"zambia", ".", "tiles">>)}

\* C25: with a principal, the run does not end in the exception of a
\* privilege check on a schema, a table, a column or a function
C25_PrivilegeCheckErrorsSkipped ==
    (for_user /\ pc = "raised") =>
        raised_at \notin {"schema_is_accessible", "table_is_accessible",
                          "column_is_accessible", "function_is_publishable"}

\* C23: when create_config_dict is over, by a return or by an exception, its
\* pool is closed and its connection released, and after a call of
\* database_exists or list_databases, returned or raised, no connection the
\* call opened is open
C23_ConnectionsReleased ==
    /\ pc \in {"raised", "return", "done", "dumped"} =>
           (~handles.pool /\ handles.conns = 0)
    /\ op.name \in {"database_exists", "list_databases"} => open_conns = 0

\* the entries of a mapping and of the maps nested in it, each with its
\* depth, a nested map's entries right after its key, in insertion order
RECURSIVE Entries(_, _)
Entries(items, d) ==
    IF items = <<>> THEN <<>>
    ELSE << [depth |-> d, key |-> items[1][1], value |-> items[1][2]] >>
         \o Entries(items[1][2].items, d + 1)
         \o Entries(Tail(items), d)

\* the line of an entry: 2 * depth blanks and the key, and for a scalar
\* ": " and the value, a boolean in lower case, any other as str() gives it
Line(e) ==
    [i \in 1..(2 * e.depth) |-> " "] \o <<e.key>> \o
    (IF e.value.py = "dict" THEN <<>>
     ELSE <<":", " ">> \o
          (IF e.value = PyBool(TrueText) THEN <<"t", "r", "u", "e">>
           ELSE IF e.value = PyBool(FalseText) THEN <<"f", "a", "l", "s", "e">>
           ELSE e.value.repr))

Rendering(items) ==
    LET es == Entries(items, 0) IN [i \in 1..Len(es) |-> Line(es[i])]

\* C21: the lines a call of dump writes are the lines of the entries of its
\* mapping, one per entry and in that order: an entry at depth d has 2 * d
\* leading blanks, the entries of a nested map follow the line of its key, a
\* boolean is written true or false and any other scalar as it is; these
\* lines end the text the call returns
C21_DumpLines ==
    (ncalls > 0 /\ input_dict # <<>>) =>
        LET lines == Rendering(input_dict)
            n == Len(lines)
            m == Len(content)
        IN  /\ m >= n
            /\ SubSeq(content, m - n + 1, m) = lines
            /\ yaml_config =
                 [none |-> FALSE,
                  text |-> join("\n", SubSeq(content, 1, m - n) \o lines)]

C21_Witness ==
    /\ ncalls = 1
    /\ Len(input_dict) = 2
    /\ input_dict[1][1] = "keep_alive"
    /\ yaml_config.text =
         <<"keep_alive", ":", " ", "7", "5", "\n",
           "table_sources:", "\n",
           " ", " ", "zambia.poverty:", "\n",
           " ", " ", " ", " ", "id", ":", " ", "zambia.poverty", "\n",
           " ", " ", " ", " ", "srid", ":", " ", "3", "8", "5", "7", "\n",
           " ", " ", " ", " ", "clip_geometry", ":", " ",
               "t", "r", "u", "e", "\n",
           " ", " ", " ", " ", "properties:", "\n",
           " ", " ", " ", " ", " ", " ", "pub_ctr", ":", " ", "float8">>

\* C27: the text a call of dump returns is the rendering of the mapping of
\* that call and nothing else
C27_DumpOnlyItsMapping ==
    (ncalls > 0 /\ input_dict # <<>>) =>
        yaml_config = [none |-> FALSE,
                       text |-> join("\n", Rendering(input_dict))]

\* the type of column c, as text, mentions the digits of n
Mentions(c, n) == contains(str(c.srid), str(n))

SomeMention(g, n) == \E i \in 1..Len(g) : Mentions(g[i], n)

FirstMention(g, n) ==
    g[CHOOSE i \in 1..Len(g) :
        Mentions(g[i], n) /\ \A j \in 1..(i - 1) : ~Mentions(g[j], n)]

\* get_table_cfg2 on more than one geometry column: the first whose type
\* mentions 3857, else the first whose type mentions 4326, else the first
Cfg2Selection ==
    (by_cfg2 # NoValue /\ Len(geoms) > 1) =>
        by_cfg2 = IF SomeMention(geoms, 3857)
                  THEN FirstMention(geoms, 3857).column_name
                  ELSE IF SomeMention(geoms, 4326)
                  THEN FirstMention(geoms, 4326).column_name
                  ELSE geoms[1].column_name

BothSelected == by_cfg2 # NoValue /\ by_db # NoValue

====
